---- MODULE Spec2Model ----
(***************************************************************************)
(* CryptoTracker (Stock_App.py): the two cached fetch functions            *)
(* get_coins_list and get_coin_history, and the script main() that         *)
(* Streamlit re-runs on every user interaction.                            *)
(*                                                                         *)
(* The market-data API is the environment: every HTTP GET is answered by   *)
(* a nondeterministically chosen reply (a response with a status code and  *)
(* a body, or a transport failure that makes requests.get raise).          *)
(* Prices are modelled as integers, calendar dates as day numbers since    *)
(* the epoch (UTC), timestamps as integers in the unit the code uses.      *)
(***************************************************************************)
EXTENDS Integers, Sequences, FiniteSets, TLC

VARIABLES
    pc,                 \* position of main() in the current script run
    runs,               \* script runs started so far
    coins_cache,        \* @st.cache_data store of get_coins_list
    history_cache,      \* @st.cache_data store of get_coin_history
    catRequests,        \* HTTP GETs sent to /coins/list (process lifetime)
    histRequests,       \* HTTP GETs sent to /market_chart/range (process lifetime)
    coins,              \* main: coins
    selected_coin_name, \* main: selected_coin_name
    selected_coin_id,   \* main: selected_coin_id
    start_date,         \* main: start_date (day number)
    end_date,           \* main: end_date (day number)
    from_timestamp,     \* main: from_timestamp (epoch seconds)
    to_timestamp,       \* main: to_timestamp (epoch seconds)
    df,                 \* main: df, a sequence of [date, price] rows
    chart,              \* <<rows>> handed to st.plotly_chart in this run (<<>>: no chart)
    metrics,            \* the st.metric summary of this run (<<>>: none)
    messages,           \* st.error / st.info boxes shown in this run, in order
    events,             \* what this run has done so far, in order
    lastCall,           \* the most recent call of a fetch function and its outcome
    catalogLog          \* every call of get_coins_list so far (process lifetime)

vars == <<pc, runs, coins_cache, history_cache, catRequests, histRequests,
          coins, selected_coin_name, selected_coin_id, start_date, end_date,
          from_timestamp, to_timestamp, df, chart, metrics, messages, events,
          lastCall, catalogLog>>

persistent == <<coins_cache, history_cache, catRequests, histRequests>>
logs == <<catalogLog>>
inputs == <<selected_coin_name, selected_coin_id, start_date, end_date,
            from_timestamp, to_timestamp>>
outputs == <<chart, metrics>>

-----------------------------------------------------------------------------
(* Bounds of the model *)

MaxRuns == 3        \* script runs (user interactions) explored
MaxCoins == 2       \* entries in a catalog response
MaxLen == 3         \* [timestamp_ms, price] pairs in a history response
MaxDay == 1         \* the date pickers offer days 0..MaxDay

(* Units *)

MsPerDay == 86400000    \* unit='ms' truncated to a calendar day
SecPerDay == 86400      \* datetime.timestamp() is in seconds

-----------------------------------------------------------------------------
(* Values *)

None == "None"          \* Python's None where a string is expected

CoinIds == {"", "btc", "eth"}
CoinNames == {"", "Bitcoin"}
Coin == [id : CoinIds, name : CoinNames]

Days == 0..MaxDay
Timestamps == {0, MsPerDay - 1, MsPerDay}
Prices == {1, 2, 3}
PricePair == Timestamps \X Prices

SeqUpTo(S, n) == UNION {[1..k -> S] : k \in 0..n}

Range(s) == {s[i] : i \in 1..Len(s)}

\* HTTP status codes the API answers with; response.ok is status < 400
StatusCodes == {200, 404, 500}

Ok(status) == status < 400

(* What one HTTP GET can come back with.  delivered = FALSE: requests.get   *)
(* raises (connection error, timeout) and there is no response object.      *)
(* parses = FALSE: the body is not JSON, so response.json() raises.         *)
Reply(delivered, status, parses, body) ==
    [delivered |-> delivered, status |-> status, parses |-> parses, body |-> body]

FailedReplies(emptyBody) ==
    {Reply(TRUE, s, TRUE, emptyBody) : s \in {c \in StatusCodes : ~Ok(c)}}
    \cup {Reply(TRUE, 200, FALSE, emptyBody), Reply(FALSE, 0, FALSE, emptyBody)}

\* /coins/list answers with a JSON array of coin objects
CatalogReplies(bodies) ==
    {Reply(TRUE, 200, TRUE, b) : b \in bodies} \cup FailedReplies(<<>>)

\* /market_chart/range answers with a JSON object that may hold "prices"
HistoryBody(has_prices, prices) == [has_prices |-> has_prices, prices |-> prices]

HistoryReplies(series) ==
    {Reply(TRUE, 200, TRUE, HistoryBody(TRUE, s)) : s \in series}
    \cup {Reply(TRUE, 200, TRUE, HistoryBody(FALSE, <<>>))}
    \cup FailedReplies(HistoryBody(FALSE, <<>>))

\* every catalog / price series within the bounds
AllCatalogs == SeqUpTo(Coin, MaxCoins)
AllSeries == SeqUpTo(PricePair, MaxLen)

\* representative payloads for the runs that exercise the control flow
SampleCatalogs ==
    { <<>>,
      <<[id |-> "btc", name |-> "Bitcoin"]>>,
      <<[id |-> "", name |-> ""], [id |-> "eth", name |-> "Bitcoin"]>> }
SampleSeries ==
    { <<>>,
      << <<0, 1>> >>,
      << <<MsPerDay - 1, 2>>, <<MsPerDay, 2>> >> }

-----------------------------------------------------------------------------
(* The bodies of the two fetch functions, as functions of the reply.  The   *)
(* result says whether the body raised, what it returned, the st.error      *)
(* boxes it showed and how many times it called requests.get.               *)

Outcome(raised, value, errors, requests) ==
    [raised |-> raised, value |-> value, errors |-> errors, requests |-> requests]

\* st.error / st.info; the text is the f-string's parts
ErrorBox(text) == [level |-> "error", text |-> text]
InfoBox(text) == [level |-> "info", text |-> text]

\* faulty variant: a failed status raises (raise_for_status) instead of failing soft
get_coins_list_raising(reply) ==
    IF ~reply.delivered \/ ~Ok(reply.status) \/ ~reply.parses
    THEN Outcome(TRUE, <<>>, <<>>, 1)
    ELSE Outcome(FALSE, reply.body, <<>>, 1)

\* faulty variant: entries with a blank id or name are filtered out
get_coins_list_filtering(reply) ==
    IF ~reply.delivered THEN Outcome(TRUE, <<>>, <<>>, 1)
    ELSE IF Ok(reply.status)
         THEN IF ~reply.parses THEN Outcome(TRUE, <<>>, <<>>, 1)
              ELSE Outcome(FALSE,
                           SelectSeq(reply.body, LAMBDA c : c.id # "" /\ c.name # ""),
                           <<>>, 1)
         ELSE Outcome(FALSE, <<>>, <<ErrorBox(<<"Error fetching the coins list.">>)>>, 1)

\* Stock_App.py 9-17
get_coins_list(reply) ==
    IF ~reply.delivered THEN Outcome(TRUE, <<>>, <<>>, 1)           \* line 11 raises
    ELSE IF Ok(reply.status)
         THEN IF ~reply.parses THEN Outcome(TRUE, <<>>, <<>>, 1)    \* line 13 raises
              ELSE Outcome(FALSE, reply.body, <<>>, 1)
         ELSE Outcome(FALSE, <<>>, <<ErrorBox(<<"Error fetching the coins list.">>)>>, 1)

\* faulty variant: rounds to the nearest day instead of truncating
ToDate_rounding(timestamp) == (timestamp + MsPerDay \div 2) \div MsPerDay

\* pd.to_datetime(ts, unit='ms').dt.date: the calendar day of a millisecond timestamp
ToDate(timestamp) == timestamp \div MsPerDay

Row(date, price) == [date |-> date, price |-> price]

\* Stock_App.py 31-33: one row per pair, timestamp replaced by its date
Normalize(prices) == [i \in 1..Len(prices) |-> Row(ToDate(prices[i][1]), prices[i][2])]

\* Stock_App.py 30: data.get("prices", [])
GetPrices(data) == IF data.has_prices THEN data.prices ELSE <<>>

\* faulty variant: a failed status is retried once before giving up
get_coin_history_retrying(coin_id, from_ts, to_ts, reply) ==
    IF ~reply.delivered THEN Outcome(TRUE, <<>>, <<>>, 1)
    ELSE IF Ok(reply.status)
         THEN IF ~reply.parses THEN Outcome(TRUE, <<>>, <<>>, 1)
              ELSE Outcome(FALSE, Normalize(GetPrices(reply.body)), <<>>, 1)
         ELSE Outcome(FALSE, <<>>,
                      <<ErrorBox(<<"Error fetching the historical data for ", coin_id, ".">>)>>,
                      2)

\* Stock_App.py 20-36
get_coin_history(coin_id, from_ts, to_ts, reply) ==
    IF ~reply.delivered THEN Outcome(TRUE, <<>>, <<>>, 1)           \* line 27 raises
    ELSE IF Ok(reply.status)
         THEN IF ~reply.parses THEN Outcome(TRUE, <<>>, <<>>, 1)    \* line 29 raises
              ELSE Outcome(FALSE, Normalize(GetPrices(reply.body)), <<>>, 1)
         ELSE Outcome(FALSE, <<>>,
                      <<ErrorBox(<<"Error fetching the historical data for ", coin_id, ".">>)>>,
                      1)

-----------------------------------------------------------------------------
(* The summary of main(), lines 70-76 *)

PriceColumn(d) == [i \in 1..Len(d) |-> d[i].price]

\* Series.max() / Series.min()
Max(col) == CHOOSE x \in Range(col) : \A y \in Range(col) : y <= x
Min(col) == CHOOSE x \in Range(col) : \A y \in Range(col) : x <= y

\* Series.idxmax() / Series.idxmin(): the label of the first row holding the extreme
FirstIndexOf(col, x) ==
    CHOOSE i \in 1..Len(col) : col[i] = x /\ \A j \in 1..(i - 1) : col[j] # x
\* faulty variant: the last row holding the maximum
idxmax_last(col) ==
    CHOOSE i \in 1..Len(col) :
        col[i] = Max(col) /\ \A j \in (i + 1)..Len(col) : col[j] # Max(col)
idxmax(col) == FirstIndexOf(col, Max(col))
idxmin(col) == FirstIndexOf(col, Min(col))

\* Stock_App.py 71-76 (the 12-decimal formatting of lines 77-78 is display only)
Summary(d) ==
    [max_price |-> Max(PriceColumn(d)),
     max_date  |-> d[idxmax(PriceColumn(d))].date,
     min_price |-> Min(PriceColumn(d)),
     min_date  |-> d[idxmin(PriceColumn(d))].date]

-----------------------------------------------------------------------------
(* The inputs of main(), lines 43-58 *)

\* line 43
coin_names(cs) == [i \in 1..Len(cs) |-> cs[i].name]

\* st.selectbox: one of the options, None when there are none
SelectboxChoices(options) == IF options = <<>> THEN {None} ELSE Range(options)

\* line 46: next((coin["id"] for coin in coins if coin["name"] == name), None)
NextId(cs, name) ==
    IF \E i \in 1..Len(cs) : cs[i].name = name
    THEN cs[CHOOSE i \in 1..Len(cs) :
                cs[i].name = name /\ \A j \in 1..(i - 1) : cs[j].name # name].id
    ELSE None

\* lines 52, 55: midnight of start_date, in epoch seconds
FromTimestamp(day) == day * SecPerDay
\* lines 53, 56: 23:59:59.999999 of end_date, truncated to epoch seconds
ToTimestamp(day) == day * SecPerDay + (SecPerDay - 1)

\* truthiness of selected_coin_id: None and "" are falsy
Truthy(id) == id # None /\ id # ""

\* faulty variant: the date range is not checked
HistoryGuard_no_dates(id, start, end) == Truthy(id)

\* line 58
HistoryGuard(id, start, end) == Truthy(id) /\ start <= end

\* line 63: not df.empty
NotEmpty(d) == Len(d) > 0

-----------------------------------------------------------------------------
(* State *)

NoReply == Reply(FALSE, 0, FALSE, <<>>)
NoCall == [fn |-> "none", cached |-> FALSE, reply |-> NoReply,
           out |-> Outcome(FALSE, <<>>, <<>>, 0)]
Call(fn, cached, reply, out) ==
    [fn |-> fn, cached |-> cached, reply |-> reply, out |-> out]

HistoryKey(id, from_ts, to_ts) == <<id, from_ts, to_ts>>
CacheEntry(key, memo) == [key |-> key, memo |-> memo]
Cached(key) == {e \in history_cache : e.key = key}

FreshLocals ==
    /\ coins = <<>>
    /\ selected_coin_name = None
    /\ selected_coin_id = None
    /\ start_date = 0
    /\ end_date = 0
    /\ from_timestamp = 0
    /\ to_timestamp = 0
    /\ df = <<>>
    /\ chart = <<>>
    /\ metrics = <<>>
    /\ messages = <<>>
    /\ events = <<>>
    /\ lastCall = NoCall

Init ==
    /\ pc = "start"
    /\ runs = 1
    /\ coins_cache = <<>>
    /\ history_cache = {}
    /\ catRequests = 0
    /\ histRequests = 0
    /\ catalogLog = <<>>
    /\ FreshLocals

-----------------------------------------------------------------------------
(* @st.cache_data, lines 8 and 19: a call that returns stores its value,     *)
(* and the st elements its body showed, under its arguments; a call that    *)
(* raises stores nothing.  A later call with the same arguments gets the    *)
(* stored value and the stored elements are shown again; the body does not  *)
(* run.                                                                     *)

Memo(out) == [value |-> out.value, errors |-> out.errors]

\* faulty variant: an empty result is not memoized
CoinsCacheAfter_skip_empty(out) ==
    IF out.raised \/ out.value = <<>> THEN <<>> ELSE <<Memo(out)>>

CoinsCacheAfter(out) == IF out.raised THEN <<>> ELSE <<Memo(out)>>

HistoryCacheAfter(cache, key, out) ==
    IF out.raised THEN cache ELSE cache \cup {CacheEntry(key, Memo(out))}

-----------------------------------------------------------------------------
(* main(), one action per step of the script *)

\* line 42, served from the cache
GetCoinsListHit ==
    /\ pc = "start"
    /\ coins_cache # <<>>
    /\ LET memo == coins_cache[1]
           out == Outcome(FALSE, memo.value, memo.errors, 0) IN
         /\ coins' = memo.value
         /\ messages' = messages \o memo.errors
         /\ lastCall' = Call("get_coins_list", TRUE, NoReply, out)
         /\ catalogLog' = Append(catalogLog, out)
    /\ events' = Append(events, "get_coins_list")
    /\ pc' = "select"
    /\ UNCHANGED <<runs, persistent, inputs, df, outputs>>

\* line 42, cache miss: the body runs against the reply of the API
GetCoinsListMiss(bodies) ==
    /\ pc = "start"
    /\ coins_cache = <<>>
    /\ \E reply \in CatalogReplies(bodies) :
         LET out == get_coins_list(reply) IN
         /\ catRequests' = catRequests + out.requests
         /\ coins_cache' = CoinsCacheAfter(out)
         /\ messages' = messages \o out.errors
         /\ lastCall' = Call("get_coins_list", FALSE, reply, out)
         /\ catalogLog' = Append(catalogLog, out)
         /\ coins' = out.value
         /\ pc' = IF out.raised THEN "crashed" ELSE "select"
    /\ events' = Append(events, "get_coins_list")
    /\ UNCHANGED <<runs, history_cache, histRequests, inputs, df, outputs>>

\* lines 43-56: the sidebar widgets and the values derived from them
SelectInputs ==
    /\ pc = "select"
    /\ \E name \in SelectboxChoices(coin_names(coins)), start \in Days, end \in Days :
         /\ selected_coin_name' = name
         /\ selected_coin_id' = NextId(coins, name)
         /\ start_date' = start
         /\ end_date' = end
         /\ from_timestamp' = FromTimestamp(start)
         /\ to_timestamp' = ToTimestamp(end)
    /\ pc' = "branch"
    /\ UNCHANGED <<runs, persistent, coins, df, outputs, messages, events, lastCall, logs>>

\* lines 58-60, served from the cache
GetCoinHistoryHit ==
    /\ pc = "branch"
    /\ HistoryGuard(selected_coin_id, start_date, end_date)
    /\ \E e \in Cached(HistoryKey(selected_coin_id, from_timestamp, to_timestamp)) :
         /\ df' = e.memo.value
         /\ messages' = messages \o e.memo.errors
         /\ lastCall' = Call("get_coin_history", TRUE, NoReply,
                             Outcome(FALSE, e.memo.value, e.memo.errors, 0))
    /\ events' = Append(events, "get_coin_history")
    /\ pc' = "render"
    /\ UNCHANGED <<runs, persistent, coins, inputs, outputs, logs>>

\* lines 58-60, cache miss
GetCoinHistoryMiss(series) ==
    /\ pc = "branch"
    /\ HistoryGuard(selected_coin_id, start_date, end_date)
    /\ Cached(HistoryKey(selected_coin_id, from_timestamp, to_timestamp)) = {}
    /\ \E reply \in HistoryReplies(series) :
         LET out == get_coin_history(selected_coin_id, from_timestamp,
                                     to_timestamp, reply) IN
         /\ histRequests' = histRequests + out.requests
         /\ history_cache' =
              HistoryCacheAfter(history_cache,
                  HistoryKey(selected_coin_id, from_timestamp, to_timestamp), out)
         /\ messages' = messages \o out.errors
         /\ lastCall' = Call("get_coin_history", FALSE, reply, out)
         /\ df' = out.value
         /\ pc' = IF out.raised THEN "crashed" ELSE "render"
    /\ events' = Append(events, "get_coin_history")
    /\ UNCHANGED <<runs, coins_cache, catRequests, coins, inputs, outputs, logs>>

\* lines 86-87
ShowInfo ==
    /\ pc = "branch"
    /\ ~HistoryGuard(selected_coin_id, start_date, end_date)
    /\ messages' = Append(messages, InfoBox(
         <<"Please select a cryptocurrency and a valid date range where the start date is not after the end date.">>))
    /\ events' = Append(events, "info")
    /\ pc' = "done"
    /\ UNCHANGED <<runs, persistent, coins, inputs, df, outputs, lastCall, logs>>

\* faulty variant: the emptiness check of line 63 is missing
RenderChart_unguarded ==
    /\ pc = "render"
    /\ chart' = <<df>>
    /\ metrics' = IF NotEmpty(df) THEN <<Summary(df)>> ELSE <<>>
    /\ events' = events \o <<"plotly_chart", "metric">>
    /\ pc' = "done"
    /\ UNCHANGED <<runs, persistent, coins, inputs, df, messages, lastCall, logs>>

\* lines 63-83
RenderChart ==
    /\ pc = "render"
    /\ NotEmpty(df)
    /\ chart' = <<df>>
    /\ metrics' = <<Summary(df)>>
    /\ events' = events \o <<"plotly_chart", "metric">>
    /\ pc' = "done"
    /\ UNCHANGED <<runs, persistent, coins, inputs, df, messages, lastCall, logs>>

\* faulty variant: an empty result sends main back to fetch again
ShowNoData_retry ==
    /\ pc = "render"
    /\ ~NotEmpty(df)
    /\ messages' = Append(messages, ErrorBox(<<"No data available for the selected cryptocurrency and date range.">>))
    /\ events' = Append(events, "no_data")
    /\ pc' = "branch"
    /\ UNCHANGED <<runs, persistent, coins, inputs, df, outputs, lastCall, logs>>

\* lines 84-85
ShowNoData ==
    /\ pc = "render"
    /\ ~NotEmpty(df)
    /\ messages' = Append(messages, ErrorBox(<<"No data available for the selected cryptocurrency and date range.">>))
    /\ events' = Append(events, "no_data")
    /\ pc' = "done"
    /\ UNCHANGED <<runs, persistent, coins, inputs, df, outputs, lastCall, logs>>

\* the next user interaction: Streamlit runs the script again from the top;
\* only the caches live on
Rerun ==
    /\ pc \in {"done", "crashed"}
    /\ runs < MaxRuns
    /\ runs' = runs + 1
    /\ pc' = "start"
    /\ coins' = <<>>
    /\ selected_coin_name' = None
    /\ selected_coin_id' = None
    /\ start_date' = 0
    /\ end_date' = 0
    /\ from_timestamp' = 0
    /\ to_timestamp' = 0
    /\ df' = <<>>
    /\ chart' = <<>>
    /\ metrics' = <<>>
    /\ messages' = <<>>
    /\ events' = <<>>
    /\ lastCall' = NoCall
    /\ UNCHANGED <<persistent, logs>>

-----------------------------------------------------------------------------
(* The application over several interactions, representative payloads *)
Next ==
    \/ GetCoinsListHit
    \/ GetCoinsListMiss(SampleCatalogs)
    \/ SelectInputs
    \/ GetCoinHistoryHit
    \/ GetCoinHistoryMiss(SampleSeries)
    \/ ShowInfo
    \/ RenderChart
    \/ ShowNoData
    \/ Rerun

Spec == Init /\ [][Next]_vars

(* One cold run of the script, every catalog within the bounds *)
NextCatalog ==
    \/ GetCoinsListMiss(AllCatalogs)
    \/ SelectInputs
    \/ GetCoinHistoryMiss(SampleSeries)
    \/ ShowInfo
    \/ RenderChart
    \/ ShowNoData

SpecCatalog == Init /\ [][NextCatalog]_vars

(* One cold run of the script, every price series within the bounds *)
NextHistory ==
    \/ GetCoinsListMiss(SampleCatalogs)
    \/ SelectInputs
    \/ GetCoinHistoryMiss(AllSeries)
    \/ ShowInfo
    \/ RenderChart
    \/ ShowNoData

SpecHistory == Init /\ [][NextHistory]_vars

-----------------------------------------------------------------------------
(* Properties *)

Count(seq, x) == Cardinality({i \in 1..Len(seq) : seq[i] = x})
Called(fn) == \E i \in 1..Len(events) : events[i] = fn

CoinsListError == ErrorBox(<<"Error fetching the coins list.">>)
HistoryError ==
    ErrorBox(<<"Error fetching the historical data for ", selected_coin_id, ".">>)
NoDataError == ErrorBox(<<"No data available for the selected cryptocurrency and date range.">>)

\* the last call ran the body of fn and the API answered with a failed status
FailedStatus(fn) ==
    /\ lastCall.fn = fn
    /\ ~lastCall.cached
    /\ lastCall.reply.delivered
    /\ ~Ok(lastCall.reply.status)

\* the last call ran the body of fn and the API answered with a parsable success
Succeeded(fn) ==
    /\ lastCall.fn = fn
    /\ ~lastCall.cached
    /\ lastCall.reply.delivered
    /\ Ok(lastCall.reply.status)
    /\ lastCall.reply.parses

(* C1: when the catalog endpoint answers with a non-success status,        *)
(* get_coins_list does not raise, returns the empty list and shows exactly *)
(* one error box; main goes on with an empty catalog.                      *)
C1_FailedCatalogFailsSoft ==
    FailedStatus("get_coins_list") =>
        /\ ~lastCall.out.raised
        /\ lastCall.out.value = <<>>
        /\ lastCall.out.errors = <<CoinsListError>>
        /\ coins = <<>>
        /\ Count(messages, CoinsListError) = 1
        /\ pc # "crashed"

C1_Witness ==
    /\ FailedStatus("get_coins_list")
    /\ lastCall.reply.status = 500
    /\ pc = "done"

(* C2: when the history endpoint answers with a non-success status,        *)
(* get_coin_history shows one error box, returns the empty series to main  *)
(* without raising, and has sent exactly one HTTP request.                 *)
C2_FailedHistoryFailsSoft ==
    FailedStatus("get_coin_history") =>
        /\ ~lastCall.out.raised
        /\ lastCall.out.value = <<>>
        /\ lastCall.out.errors = <<HistoryError>>
        /\ lastCall.out.requests = 1
        /\ df = <<>>
        /\ Count(messages, HistoryError) = 1
        /\ Count(events, "get_coin_history") = 1
        /\ pc # "crashed"

C2_Witness ==
    /\ FailedStatus("get_coin_history")
    /\ lastCall.reply.status = 404
    /\ pc = "done"

(* C3: no call of get_coins_list or get_coin_history lets an exception     *)
(* propagate: whatever the GET comes back with, the call returns.          *)
C3_NoExceptionPropagates ==
    /\ ~lastCall.out.raised
    /\ pc # "crashed"

C5_SummaryFirstExtreme ==
    /\ (pc = "done" /\ Called("get_coin_history") /\ df # <<>>) => metrics # <<>>
    /\ metrics # <<>> =>
         LET m == metrics[1]
             rows == 1..Len(df)
         IN  /\ df # <<>>
             /\ \A i \in rows : m.min_price <= df[i].price /\ df[i].price <= m.max_price
             /\ \E i \in rows :
                  /\ df[i].price = m.max_price
                  /\ df[i].date = m.max_date
                  /\ \A j \in rows : j < i => df[j].price < m.max_price
             /\ \E i \in rows :
                  /\ df[i].price = m.min_price
                  /\ df[i].date = m.min_date
                  /\ \A j \in rows : j < i => df[j].price > m.min_price

\* a tied maximum on two different days: the earlier row's date is shown
C5_Witness ==
    /\ metrics # <<>>
    /\ Len(df) = 3
    /\ df[1].price = 3 /\ df[3].price = 3 /\ df[2].price = 1
    /\ df[1].date # df[3].date
    /\ metrics[1].max_date = df[1].date

(* C6: get_coin_history is called only with a selected coin id and with    *)
(* start_date <= end_date (hence from_timestamp <= to_timestamp); with no  *)
(* coin selected (an empty catalog included) or start_date > end_date,     *)
(* main makes no history call and ends with an info box.                   *)
C6_HistoryOnlyWhenValid ==
    /\ Called("get_coin_history") =>
         /\ selected_coin_id # None
         /\ selected_coin_id # ""
         /\ start_date <= end_date
         /\ from_timestamp <= to_timestamp
    /\ (pc \in {"branch", "render", "done"} /\ coins = <<>>) => selected_coin_id = None
    /\ (pc = "done" /\ (selected_coin_id \in {None, ""} \/ start_date > end_date)) =>
         /\ ~Called("get_coin_history")
         /\ lastCall.fn # "get_coin_history"
         /\ messages # <<>>
         /\ messages[Len(messages)].level = "info"
         /\ chart = <<>>

C6_Witness ==
    /\ pc = "done"
    /\ selected_coin_id = "btc"
    /\ start_date > end_date
    /\ messages[Len(messages)].level = "info"

(* C7 as stated: a successful catalog response with N entries is returned  *)
(* as N values in the order received, each with a non-empty id and name.   *)
C7_EveryIdAndNameNonEmpty ==
    Succeeded("get_coins_list") =>
        /\ Len(coins) = Len(lastCall.reply.body)
        /\ \A i \in 1..Len(coins) :
             /\ coins[i] = lastCall.reply.body[i]
             /\ coins[i].id # ""
             /\ coins[i].name # ""

(* C7 amended: a successful catalog response with N entries is returned as *)
(* N values in the order received, each exactly as received: no entry is   *)
(* dropped or altered, whatever its id and name.                           *)
C7_CatalogPassedThrough ==
    Succeeded("get_coins_list") =>
        /\ Len(coins) = Len(lastCall.reply.body)
        /\ \A i \in 1..Len(coins) : coins[i] = lastCall.reply.body[i]
        /\ lastCall.out.value = coins
        /\ lastCall.out.errors = <<>>

C7_Witness ==
    /\ Succeeded("get_coins_list")
    /\ Len(coins) = 2
    /\ coins[1].id = ""
    /\ coins[2].id = "btc"
    /\ pc = "done"

(* C8: a successful history response with K [timestamp_ms, price] pairs is *)
(* returned as K rows in the same order, each with the pair's price and    *)
(* the calendar day its timestamp falls in, and with no timestamp field;   *)
(* same-day samples are all kept; no prices field gives no rows.           *)
C8_HistoryNormalized ==
    Succeeded("get_coin_history") =>
        LET body == lastCall.reply.body
            prices == IF body.has_prices THEN body.prices ELSE <<>>
        IN  /\ Len(df) = Len(prices)
            /\ \A i \in 1..Len(df) :
                 /\ DOMAIN df[i] = {"date", "price"}
                 /\ df[i].price = prices[i][2]
                 /\ df[i].date * MsPerDay <= prices[i][1]
                 /\ prices[i][1] < (df[i].date + 1) * MsPerDay

\* two samples of the same day, both kept
C8_Witness ==
    /\ Succeeded("get_coin_history")
    /\ Len(df) = 2
    /\ lastCall.reply.body.prices[1][1] = MsPerDay - 1
    /\ lastCall.reply.body.prices[2][1] = 0
    /\ df[1].date = df[2].date
    /\ pc = "done"

(* C9: in one run of main, get_coins_list is called at most once and is    *)
(* the first thing done, get_coin_history is called at most once and only  *)
(* after it, and the chart, the metrics and main's messages come only      *)
(* after the fetches of that run.                                          *)
FetchEvents == {"get_coins_list", "get_coin_history"}
C9_FetchesSequentialThenRender ==
    /\ Count(events, "get_coins_list") <= 1
    /\ Count(events, "get_coin_history") <= 1
    /\ \A i \in 1..Len(events) :
         /\ events[i] = "get_coins_list" => i = 1
         /\ events[i] = "get_coin_history" => (i = 2 /\ events[1] = "get_coins_list")
         /\ events[i] \notin FetchEvents =>
              /\ events[1] = "get_coins_list"
              /\ \A j \in 1..Len(events) : events[j] \in FetchEvents => j < i
    /\ (chart # <<>> \/ metrics # <<>>) =>
         (Called("get_coins_list") /\ Called("get_coin_history"))

C9_Witness ==
    /\ pc = "done"
    /\ runs = 2
    /\ events = <<"get_coins_list", "get_coin_history", "plotly_chart", "metric">>

(* C10: when get_coin_history has returned an empty series, main ends with *)
(* the "no data" error box, renders no chart and computes no summary; a    *)
(* summary is only ever computed on a non-empty series.                    *)
C10_EmptySeriesNoChart ==
    /\ (pc = "done" /\ Called("get_coin_history") /\ df = <<>>) =>
         /\ chart = <<>>
         /\ metrics = <<>>
         /\ messages # <<>>
         /\ messages[Len(messages)] = NoDataError
    /\ (chart # <<>> \/ metrics # <<>>) => df # <<>>

C10_Witness ==
    /\ pc = "done"
    /\ FailedStatus("get_coin_history")
    /\ df = <<>>
    /\ messages = <<HistoryError, NoDataError>>

====
